---- MODULE Spec2Model ----
(***************************************************************************)
(* tundra: SnowflakeConnector (tundra/connector.py) and                    *)
(* SharePointConnector (tundra/sharepoint.py).                             *)
(*                                                                         *)
(* One client program owns one session object (kind) and calls its methods *)
(* one at a time (the library is single-threaded and synchronous), either  *)
(* directly or inside a `with` scope.  Every method is one atomic action.  *)
(* The driver and the platform SDK are the environment: each of their      *)
(* calls either returns or raises, chosen nondeterministically.            *)
(* `last` records the method last called, what it was given, what reached  *)
(* the caller and what the method did on the way.                          *)
(***************************************************************************)
EXTENDS Integers, Sequences, FiniteSets

\* ------------------------------------------------------------- bounds
\* Longest text (query string, path, file contents) that is enumerated.
MaxLen == 2
\* Longest file name the file system accepts (NAME_MAX, scaled down): stat()
\* of a longer name raises OSError(ENAMETOOLONG).
NameMax == 1
\* Driver connections that may be opened in one behaviour.
MaxHandles == 2
\* Longest field collection a list returns.
MaxFields == 2

\* ------------------------------------------------------------- values
\* self.conn = None / self.ctx = None
None == 0
\* the ClientContext object connect() stores in self.ctx
ClientContext == 1

SeqsUpTo(S, n) == UNION {[1..k -> S] : k \in 0..n}

\* Characters of a text: an ordinary character, carriage return, line feed.
Chars == {"x", "CR", "LF"}
Text == SeqsUpTo(Chars, MaxLen)

\* An optional text: <<>> is "no such file" in the file system and "no text"
\* in a record; <<t>> is the text t.
NoFile == <<>>
NoText == <<>>
Some(t) == <<t>>

\* Names under which a file may exist.
FileNames == {<<"x">>}

\* The query argument of execute_query: Union[str, Path].
Query == [type : {"str", "Path"}, val : Text]

\* The settings group handed to SharePointConnector: a value is "" or set.
ConfigKeys == {"site_url", "username", "password"}
SPConfig == [ConfigKeys -> {"", "v"}]

VARIABLES
  kind,         \* which class the session object is
  config,       \* self.config of a SharePointConnector
  fs,           \* the file system execute_query looks the query up in
  conn,         \* SnowflakeConnector.conn: None or a driver connection
  nextHandle,   \* driver connections opened so far
  live,         \* driver connections opened and not closed
  ctx,          \* SharePointConnector.ctx: None or a ClientContext
  scope,        \* "out" or "in" (inside a with block)
  last          \* the method call last made

vars == <<kind, config, fs, conn, nextHandle, live, ctx, scope, last>>

\* ------------------------------------------------------------- records
Call(op, exc, raw, pre, connects, connectRaised, contacted, arg, ret) ==
  [op |-> op, exc |-> exc, raw |-> raw, preEmpty |-> pre, connects |-> connects,
   connectRaised |-> connectRaised, contacted |-> contacted,
   arg |-> arg, ret |-> ret]

NoArg == "NoArg"
NoRet == "NoRet"

\* ------------------------------------------------------------- Snowflake

\* snowflake.connector.connect(**self.config): a new connection, or raises.
\* The assignment to self.conn happens only when the driver returned.
SFConnect(ok) ==
  IF ok
  THEN [conn |-> nextHandle + 1, nextHandle |-> nextHandle + 1,
        live |-> live \cup {nextHandle + 1}, exc |-> "none",
        raw |-> "none"]
  ELSE [conn |-> conn, nextHandle |-> nextHandle, live |-> live,
        exc |-> "ConnectionError", raw |-> "DriverError"]

SFKeep ==
  [conn |-> conn, nextHandle |-> nextHandle, live |-> live, exc |-> "none",
   raw |-> "none"]

\* `if not self.conn:` the auto-connect guard of execute_query
SFNeedsConnect(c) == c = None

\* A disconnect that closes the connection and keeps the handle.
SFDisconnectKeepHandle(c, lv) == [conn |-> c, live |-> lv \ {c}]

\* `if self.conn: self.conn.close(); self.conn = None`.  The driver's close()
\* logs and swallows its own errors, so disconnect has no failing outcome.
SFDisconnect(c, lv) ==
  IF c # None THEN [conn |-> None, live |-> lv \ {c}]
              ELSE [conn |-> c, live |-> lv]

\* open(path, 'r').read(): text mode with newline=None translates "\r\n"
\* and a lone "\r" to "\n".
RECURSIVE UniversalNewlines(_)
UniversalNewlines(t) ==
  IF t = <<>> THEN <<>>
  ELSE IF Head(t) = "CR"
       THEN IF Len(t) > 1 /\ t[2] = "LF"
            THEN <<"LF">> \o UniversalNewlines(SubSeq(t, 3, Len(t)))
            ELSE <<"LF">> \o UniversalNewlines(Tail(t))
       ELSE <<Head(t)>> \o UniversalNewlines(Tail(t))

\* stat() of the name: "raises" for a name longer than NAME_MAX (pathlib
\* re-raises every OSError but ENOENT, ENOTDIR, EBADF, ELOOP)
StatRaises(name) == Len(name) > NameMax

Exists(f, name) == name \in DOMAIN f /\ f[name] # NoFile

\* Path(query).is_file(): "yes", "no" or "raises"
IsFile(f, name) ==
  IF StatRaises(name) THEN "raises"
  ELSE IF Exists(f, name) THEN "yes" ELSE "no"

\* The branch of lines 48-55: which text becomes sql_query, or that the
\* branch raised (the is_file test, or open() of a missing file).
SelectQuery(f, q) ==
  IF q.type = "Path"
  THEN IF ~StatRaises(q.val) /\ Exists(f, q.val)
       THEN [raised |-> FALSE, text |-> Some(UniversalNewlines(f[q.val][1]))]
       ELSE [raised |-> TRUE, text |-> NoText]
  ELSE CASE IsFile(f, q.val) = "raises" -> [raised |-> TRUE, text |-> NoText]
         [] IsFile(f, q.val) = "yes" ->
              [raised |-> FALSE, text |-> Some(UniversalNewlines(f[q.val][1]))]
         [] OTHER -> [raised |-> FALSE, text |-> Some(q.val)]

\* `except Exception as e: raise ConnectionError(...)`
SFWrap(raw) == IF raw = "none" THEN "none" ELSE "ConnectionError"

\* Outcomes of the driver for one query: all calls return; conn.cursor()
\* raises; cursor.execute(sql_query) raises; fetchall() raises.
DriverOutcomes == {"ok", "cursor", "execute", "fetch"}

\* The outcomes the environment can give a call that is made (a call that
\* is not made has the one outcome TRUE, which nothing reads).
Outcomes(made) == IF made THEN BOOLEAN ELSE {TRUE}

Snowflake_connect(ok) ==
  /\ kind = "snowflake"
  /\ ok => nextHandle < MaxHandles
  /\ LET r == SFConnect(ok) IN
       /\ conn' = r.conn
       /\ nextHandle' = r.nextHandle
       /\ live' = r.live
       /\ last' = Call("connect", r.exc, r.raw, conn = None, 1, r.exc # "none",
                       FALSE, NoArg, NoRet)
  /\ UNCHANGED <<kind, config, fs, ctx, scope>>

Snowflake_disconnect ==
  /\ kind = "snowflake"
  /\ LET r == SFDisconnect(conn, live) IN
       /\ conn' = r.conn
       /\ live' = r.live
  /\ last' = Call("disconnect", "none", "none", conn = None, 0, FALSE, FALSE,
                  NoArg, NoRet)
  /\ UNCHANGED <<kind, config, fs, nextHandle, ctx, scope>>

Snowflake_execute_query(query, ok, drv) ==
  LET need == SFNeedsConnect(conn)
      r == IF need THEN SFConnect(ok) ELSE SFKeep
      sel == SelectQuery(fs, query)
      \* the driver is asked only when the connect and the branch returned
      asked == r.exc = "none" /\ ~sel.raised
      raw == IF sel.raised THEN "OSError"
             ELSE IF drv = "ok" THEN "none" ELSE "DriverError"
      sent == IF ~asked \/ drv = "cursor" THEN NoText ELSE sel.text
  IN
    /\ kind = "snowflake"
    /\ ok \in Outcomes(need)
    /\ drv \in (IF asked THEN DriverOutcomes ELSE {"ok"})
    /\ (need /\ ok) => nextHandle < MaxHandles
    /\ conn' = r.conn
    /\ nextHandle' = r.nextHandle
    /\ live' = r.live
    /\ last' =
         IF r.exc # "none"
         THEN Call("execute_query", r.exc, r.raw, conn = None, 1, TRUE, FALSE,
                   query, [selected |-> FALSE, sql_query |-> NoText,
                           sent |-> NoText])
         ELSE Call("execute_query", SFWrap(raw), raw, conn = None,
                   IF need THEN 1 ELSE 0, FALSE, asked,
                   query, [selected |-> TRUE, sql_query |-> sel.text,
                           sent |-> sent])
    /\ UNCHANGED <<kind, config, fs, ctx, scope>>

\* __enter__: self.connect(); return self.  When connect raises the with
\* block is not entered and __exit__ is not called.
Snowflake_enter(ok) ==
  /\ kind = "snowflake"
  /\ scope = "out"
  /\ ok => nextHandle < MaxHandles
  /\ LET r == SFConnect(ok) IN
       /\ conn' = r.conn
       /\ nextHandle' = r.nextHandle
       /\ live' = r.live
       /\ scope' = IF r.exc = "none" THEN "in" ELSE "out"
       /\ last' = Call("__enter__", r.exc, r.raw, conn = None, 1, r.exc # "none",
                       FALSE, NoArg, NoRet)
  /\ UNCHANGED <<kind, config, fs, ctx>>

\* __exit__(exc_type, exc_val, exc_tb): self.disconnect(), whatever the
\* block did.  The record keeps the call made last in the block and what it
\* raised: the exception that leaves the block, if it was not caught there.
Snowflake_exit ==
  /\ kind = "snowflake"
  /\ scope = "in"
  /\ LET r == SFDisconnect(conn, live) IN
       /\ conn' = r.conn
       /\ live' = r.live
  /\ scope' = "out"
  /\ last' = Call("__exit__", "none", "none", conn = None, 0, FALSE, FALSE,
                  [op |-> last.op, exc |-> last.exc], NoRet)
  /\ UNCHANGED <<kind, config, fs, nextHandle, ctx>>

\* ------------------------------------------------------------- SharePoint

\* `if not all([site_url, username, password])`: a missing key (None) and an
\* empty value are both falsy.
ConfigComplete(cfg) == \A k \in ConfigKeys : cfg[k] # ""

\* What the platform does with a connect: "ok"; "auth": acquire_token_for_user
\* returns False; "rejected": the token is granted and then loading the web
\* (ctx.execute_query(), web.properties['Title']) raises.
SPOutcomes == {"ok", "auth", "rejected"}

\* The try block of connect() (lines 28-43): the exception it raises, if
\* any, and self.ctx afterwards.  self.ctx is assigned (line 37) before the
\* platform is asked for the web (line 40).
SPConnectBody(cfg, c, env) ==
  IF ~ConfigComplete(cfg) THEN [raw |-> "ConfigurationError", ctx |-> c]
  ELSE IF env = "auth" THEN [raw |-> "ConnectionError", ctx |-> c]
  ELSE IF env = "rejected" THEN [raw |-> "ClientError", ctx |-> ClientContext]
  ELSE [raw |-> "none", ctx |-> ClientContext]

\* `except Exception as e: raise ConnectionError(...)`: the handler of every
\* method but get_list_items; it catches whatever the try block raised.
SPWrap(raw) == IF raw = "none" THEN "none" ELSE "ConnectionError"

\* connect(): what reaches the caller, and self.ctx afterwards
SPConnect(env) ==
  LET b == SPConnectBody(config, ctx, env)
  IN [exc |-> SPWrap(b.raw), raw |-> b.raw, ctx |-> b.ctx]

\* A guard that connects on every call.
SPNeedsConnectAlways(c) == TRUE

\* `if not self.ctx:` the auto-connect guard of every data method
SPNeedsConnect(c) == c = None

\* A disconnect that leaves the handle as it is.
SPDisconnectKeepHandle(c) == c

\* `if self.ctx: self.ctx = None`
SPDisconnect(c) == IF c # None THEN None ELSE c

\* The platform is asked about a connect only when one is made and the
\* settings are complete.
ConnectEnv(made) ==
  IF made /\ ConfigComplete(config) THEN SPOutcomes ELSE {"ok"}

\* The guard and the connect it may make: `if not self.ctx: self.connect()`.
\* It stands before the try block, so what connect raises leaves the method.
SPGuard(env) ==
  IF SPNeedsConnect(ctx)
  THEN LET r == SPConnect(env)
       IN [made |-> 1, exc |-> r.exc, raw |-> r.raw, ctx |-> r.ctx]
  ELSE [made |-> 0, exc |-> "none", raw |-> "none", ctx |-> ctx]

\* A data method whose try block only calls the platform: the guard, then
\* the body, which the platform lets succeed (bodyOk) or not.
SPPlain(op, env, bodyOk, retOk) ==
  LET g == SPGuard(env)
      raw == IF bodyOk THEN "none" ELSE "ClientError"
  IN /\ env \in ConnectEnv(g.made = 1)
     /\ bodyOk \in Outcomes(g.exc = "none")
     /\ ctx' = g.ctx
     /\ last' =
          IF g.exc # "none"
          THEN Call(op, g.exc, g.raw, ctx = None, g.made, TRUE, FALSE,
                    NoArg, NoRet)
          ELSE Call(op, SPWrap(raw), raw, ctx = None, g.made, FALSE, TRUE,
                    NoArg, IF bodyOk THEN retOk ELSE NoRet)
     /\ UNCHANGED <<kind, config, fs, conn, nextHandle, live, scope>>

SharePoint_connect(env) ==
  /\ kind = "sharepoint"
  /\ env \in ConnectEnv(TRUE)
  /\ LET r == SPConnect(env) IN
       /\ ctx' = r.ctx
       /\ last' = Call("connect", r.exc, r.raw, ctx = None, 1, r.exc # "none",
                       FALSE, NoArg, NoRet)
  /\ UNCHANGED <<kind, config, fs, conn, nextHandle, live, scope>>

SharePoint_disconnect ==
  /\ kind = "sharepoint"
  /\ ctx' = SPDisconnect(ctx)
  /\ last' = Call("disconnect", "none", "none", ctx = None, 0, FALSE, FALSE,
                  NoArg, NoRet)
  /\ UNCHANGED <<kind, config, fs, conn, nextHandle, live, scope>>

SharePoint_read_csv_to_dataframe(env, bodyOk) ==
  /\ kind = "sharepoint"
  /\ SPPlain("read_csv_to_dataframe", env, bodyOk, "table")

SharePoint_read_excel_to_dataframe(env, bodyOk) ==
  /\ kind = "sharepoint"
  /\ SPPlain("read_excel_to_dataframe", env, bodyOk, "table")

SharePoint_update_list_item(env, bodyOk) ==
  /\ kind = "sharepoint"
  /\ SPPlain("update_list_item", env, bodyOk, "None")

SharePoint_add_list_item(env, bodyOk) ==
  /\ kind = "sharepoint"
  /\ SPPlain("add_list_item", env, bodyOk, "Id")

SharePoint_delete_list_item(env, bodyOk) ==
  /\ kind = "sharepoint"
  /\ SPPlain("delete_list_item", env, bodyOk, "None")

\* --- get_list_items
ColNames == {"Title", "Id"}
\* What the platform returns for the list: a table of item properties.  A
\* list without items gives a DataFrame without columns.
ItemTables ==
  {[rows |-> n, cols |-> C] : n \in {1}, C \in SUBSET ColNames}
    \cup {[rows |-> 0, cols |-> {}]}
EmptyTable == [rows |-> 0, cols |-> {}]
\* The fields argument: None and [] are <<>> (both falsy).
FieldsArgs == {<<>>} \cup {<<c>> : c \in ColNames}
Range(s) == {s[i] : i \in DOMAIN s}
\* DataFrame.empty: no rows or no columns
DfEmpty(df) == df.rows = 0 \/ df.cols = {}

\* The try block of get_list_items (lines 116-123): what it raises and what
\* it returns.  df[fields] raises KeyError for a column the table lacks.
ListItemsBody(fields, fetchOk, df) ==
  IF ~fetchOk THEN [raw |-> "ClientError", ret |-> EmptyTable]
  ELSE IF fields # <<>> /\ ~DfEmpty(df)
       THEN IF Range(fields) \subseteq df.cols
            THEN [raw |-> "none",
                  ret |-> [rows |-> df.rows, cols |-> Range(fields)]]
            ELSE [raw |-> "KeyError", ret |-> EmptyTable]
       ELSE [raw |-> "none", ret |-> df]

\* `except Exception as e: print(...); return pd.DataFrame()`
ListItemsHandler(b) ==
  IF b.raw = "none" THEN [exc |-> "none", ret |-> b.ret]
  ELSE [exc |-> "none", ret |-> EmptyTable]

SharePoint_get_list_items(fields, env, fetchOk, df) ==
  LET g == SPGuard(env)
      b == ListItemsBody(fields, fetchOk, df)
      h == ListItemsHandler(b)
  IN /\ kind = "sharepoint"
     /\ env \in ConnectEnv(g.made = 1)
     /\ fetchOk \in Outcomes(g.exc = "none")
     /\ df \in (IF g.exc = "none" /\ fetchOk THEN ItemTables ELSE {EmptyTable})
     /\ ctx' = g.ctx
     /\ last' =
          IF g.exc # "none"
          THEN Call("get_list_items", g.exc, g.raw, ctx = None, g.made,
                    TRUE, FALSE, fields, EmptyTable)
          ELSE Call("get_list_items", h.exc, b.raw, ctx = None, g.made,
                    FALSE, TRUE, fields, h.ret)
     /\ UNCHANGED <<kind, config, fs, conn, nextHandle, live, scope>>

\* --- get_list_fields
Titles == {"A", "B"}
InternalNames == {<<"a">>, <<"_">>, <<"_", "a">>, <<"a", "_">>}
\* field.properties of one field of the list
Field == [Title : Titles, InternalName : InternalNames]
FieldLists == SeqsUpTo(Field, MaxFields)

\* A test for an underscore anywhere in the name.
StartsWithUnderscoreAnywhere(name) == \E i \in DOMAIN name : name[i] = "_"

\* str.startswith('_')
StartsWithUnderscore(name) == Len(name) > 0 /\ name[1] = "_"

\* [field.properties['Title'] for field in fields
\*    if not field.properties['InternalName'].startswith('_')]
RECURSIVE VisibleTitles(_)
VisibleTitles(fields) ==
  IF fields = <<>> THEN <<>>
  ELSE (IF StartsWithUnderscore(Head(fields).InternalName)
        THEN <<>> ELSE <<Head(fields).Title>>)
       \o VisibleTitles(Tail(fields))

\* fields: the field collection the platform holds for the list
SharePoint_get_list_fields(fields, env, bodyOk) ==
  LET g == SPGuard(env)
      raw == IF bodyOk THEN "none" ELSE "ClientError"
  IN /\ kind = "sharepoint"
     /\ env \in ConnectEnv(g.made = 1)
     /\ bodyOk \in Outcomes(g.exc = "none")
     /\ ctx' = g.ctx
     /\ last' =
          IF g.exc # "none"
          THEN Call("get_list_fields", g.exc, g.raw, ctx = None, g.made,
                    TRUE, FALSE, fields, <<>>)
          ELSE Call("get_list_fields", SPWrap(raw), raw, ctx = None,
                    g.made, FALSE, TRUE, fields,
                    IF bodyOk THEN VisibleTitles(fields) ELSE <<>>)
     /\ UNCHANGED <<kind, config, fs, conn, nextHandle, live, scope>>

\* --- save_dataframe
FileTypes == {"csv", "CSV", "excel", "Excel", "json"}
\* file_type.lower()
Lower(t) ==
  CASE t = "CSV" -> "csv"
    [] t = "Excel" -> "excel"
    [] OTHER -> t

\* The try block of save_dataframe (lines 244-269): the folder lookup, the
\* serialisation chosen by file_type, the upload.
SaveBody(file_type, folderOk, uploadOk) ==
  IF ~folderOk THEN [raw |-> "ClientError", uploaded |-> FALSE]
  ELSE IF Lower(file_type) \notin {"csv", "excel"}
       THEN [raw |-> "ValueError", uploaded |-> FALSE]
       ELSE IF ~uploadOk THEN [raw |-> "ClientError", uploaded |-> FALSE]
            ELSE [raw |-> "none", uploaded |-> TRUE]

SharePoint_save_dataframe(file_type, env, folderOk, uploadOk) ==
  LET g == SPGuard(env)
      b == SaveBody(file_type, folderOk, uploadOk)
  IN /\ kind = "sharepoint"
     /\ env \in ConnectEnv(g.made = 1)
     /\ folderOk \in Outcomes(g.exc = "none")
     /\ uploadOk \in Outcomes(g.exc = "none" /\ folderOk
                               /\ Lower(file_type) \in {"csv", "excel"})
     /\ ctx' = g.ctx
     /\ last' =
          IF g.exc # "none"
          THEN Call("save_dataframe", g.exc, g.raw, ctx = None, g.made,
                    TRUE, FALSE, file_type,
                    [folderOk |-> FALSE, uploaded |-> FALSE])
          ELSE Call("save_dataframe", SPWrap(b.raw), b.raw, ctx = None,
                    g.made, FALSE, TRUE, file_type,
                    [folderOk |-> folderOk, uploaded |-> b.uploaded])
     /\ UNCHANGED <<kind, config, fs, conn, nextHandle, live, scope>>

\* __enter__: self.connect(); return self
SharePoint_enter(env) ==
  /\ kind = "sharepoint"
  /\ scope = "out"
  /\ env \in ConnectEnv(TRUE)
  /\ LET r == SPConnect(env) IN
       /\ ctx' = r.ctx
       /\ scope' = IF r.exc = "none" THEN "in" ELSE "out"
       /\ last' = Call("__enter__", r.exc, r.raw, ctx = None, 1,
                       r.exc # "none", FALSE, NoArg, NoRet)
  /\ UNCHANGED <<kind, config, fs, conn, nextHandle, live>>

\* __exit__(exc_type, exc_val, exc_tb): self.disconnect()
SharePoint_exit ==
  /\ kind = "sharepoint"
  /\ scope = "in"
  /\ ctx' = SPDisconnect(ctx)
  /\ scope' = "out"
  /\ last' = Call("__exit__", "none", "none", ctx = None, 0, FALSE, FALSE,
                  [op |-> last.op, exc |-> last.exc], NoRet)
  /\ UNCHANGED <<kind, config, fs, conn, nextHandle, live>>

\* ------------------------------------------------------------- program
FullConfig == [k \in ConfigKeys |-> "v"]
EmptyFs == [n \in FileNames |-> NoFile]
AllFs == [FileNames -> {Some(t) : t \in Text} \cup {NoFile}]
\* File systems in which each name is missing or holds a one-line query.
PlainFs == [FileNames -> {Some(<<"x">>), NoFile}]

Fresh == Call("__init__", "none", "none", TRUE, 0, FALSE, FALSE, NoArg, NoRet)

\* After construction: self.conn = None / self.ctx = None.  The settings
\* group and the file system are the program's inputs.
InitWith(kinds, configs, fss) ==
  /\ kind \in kinds
  /\ config \in (IF kind = "sharepoint" THEN configs ELSE {FullConfig})
  /\ fs \in (IF kind = "snowflake" THEN fss ELSE {EmptyFs})
  /\ conn = None
  /\ nextHandle = 0
  /\ live = {}
  /\ ctx = None
  /\ scope = "out"
  /\ last = Fresh

Init == InitWith({"snowflake", "sharepoint"}, SPConfig, PlainFs)

NextSnowflake ==
  \/ \E ok \in BOOLEAN : Snowflake_connect(ok)
  \/ Snowflake_disconnect
  \/ \E q \in Query, ok \in BOOLEAN, drv \in DriverOutcomes :
       Snowflake_execute_query(q, ok, drv)
  \/ \E ok \in BOOLEAN : Snowflake_enter(ok)
  \/ Snowflake_exit

NextSharePoint ==
  \/ \E env \in SPOutcomes : SharePoint_connect(env)
  \/ SharePoint_disconnect
  \/ \E env \in SPOutcomes, bodyOk \in BOOLEAN :
       SharePoint_read_csv_to_dataframe(env, bodyOk)
  \/ \E env \in SPOutcomes, bodyOk \in BOOLEAN :
       SharePoint_read_excel_to_dataframe(env, bodyOk)
  \/ \E f \in FieldsArgs, env \in SPOutcomes, fetchOk \in BOOLEAN,
        df \in ItemTables :
       SharePoint_get_list_items(f, env, fetchOk, df)
  \/ \E env \in SPOutcomes, bodyOk \in BOOLEAN :
       SharePoint_update_list_item(env, bodyOk)
  \/ \E env \in SPOutcomes, bodyOk \in BOOLEAN :
       SharePoint_add_list_item(env, bodyOk)
  \/ \E env \in SPOutcomes, bodyOk \in BOOLEAN :
       SharePoint_delete_list_item(env, bodyOk)
  \/ \E f \in FieldLists, env \in SPOutcomes, bodyOk \in BOOLEAN :
       SharePoint_get_list_fields(f, env, bodyOk)
  \/ \E t \in FileTypes, env \in SPOutcomes, folderOk, uploadOk \in BOOLEAN :
       SharePoint_save_dataframe(t, env, folderOk, uploadOk)
  \/ \E env \in SPOutcomes : SharePoint_enter(env)
  \/ SharePoint_exit

Next == NextSnowflake \/ NextSharePoint

\* Either session, in every order of calls.
Spec == Init /\ [][Next]_vars

\* A SnowflakeConnector over every file system of the bounded texts.
InitQuery == InitWith({"snowflake"}, {FullConfig}, AllFs)
SpecQuery == InitQuery /\ [][NextSnowflake]_vars

\* ------------------------------------------------------------- properties

\* The session's handle: conn of a SnowflakeConnector, ctx of a
\* SharePointConnector.  Disconnected means the handle is None.
Handle == IF kind = "snowflake" THEN conn ELSE ctx

DataOps ==
  {"execute_query", "read_csv_to_dataframe", "read_excel_to_dataframe",
   "get_list_items", "update_list_item", "add_list_item", "delete_list_item",
   "get_list_fields", "save_dataframe"}

\* C1: when __exit__ has run, the handle of the session (conn, ctx) is None,
\* whatever was called inside the with block and whether or not the block
\* was left by an exception.
C1_ExitDisconnects ==
  last.op = "__exit__" => /\ Handle = None
                          /\ conn = None
                          /\ ctx = None

\* C1 witness: a SnowflakeConnector that was connected when its with block
\* was left by a ConnectionError of execute_query.
C1_Witness ==
  /\ kind = "snowflake"
  /\ last.op = "__exit__"
  /\ last.arg.op = "execute_query"
  /\ last.arg.exc = "ConnectionError"
  /\ ~last.preEmpty

\* C2: disconnect can be called in every state and never raises; after it
\* the handle is None; disconnecting again changes nothing.
C2_DisconnectIdempotent ==
  /\ kind = "snowflake" => ENABLED Snowflake_disconnect
  /\ kind = "sharepoint" => ENABLED SharePoint_disconnect
  /\ last.op = "disconnect" => last.exc = "none" /\ Handle = None
  /\ LET once == SFDisconnect(conn, live)
     IN /\ once.conn = None
        /\ SFDisconnect(once.conn, once.live) = once
  /\ LET once == SPDisconnect(ctx)
     IN /\ once = None
        /\ SPDisconnect(once) = once

\* C2 witness: disconnect called on a SnowflakeConnector that had connected
\* and was disconnected already.
C2_Witness ==
  /\ kind = "snowflake"
  /\ last.op = "disconnect"
  /\ last.preEmpty
  /\ nextHandle > 0

\* C3: execute_query sends the contents of the file when its argument names
\* an existing file, and the argument itself for every other argument.
C3_QueryTextRule ==
  (last.op = "execute_query" /\ last.ret.selected) =>
    IF Exists(fs, last.arg.val)
    THEN last.ret.sql_query = fs[last.arg.val]
    ELSE last.ret.sql_query = Some(last.arg.val)

\* C4: get_list_items never raises: every failure while it serves the call,
\* that of its implicit connect included, gives the empty table.
C4_ListItemsNeverRaises ==
  last.op = "get_list_items" =>
    /\ last.exc = "none"
    /\ last.raw # "none" => last.ret = EmptyTable

\* C5: save_dataframe with a file_type that is neither 'csv' nor 'excel'
\* raises ValueError to its caller; ConnectionError means that the connect,
\* the folder lookup or the upload failed.
C5_InvalidFileTypeIsValueError ==
  last.op = "save_dataframe" =>
    /\ (Lower(last.arg) \notin {"csv", "excel"} /\ last.ret.folderOk)
         => last.exc = "ValueError"
    /\ last.exc = "ConnectionError"
         => last.connectRaised \/ last.raw = "ClientError"

\* C6: SharePointConnector.connect raises ConfigurationError when site_url,
\* username or password is missing or empty, and ConnectionError only when
\* the authentication fails or the platform rejects the session.
C6_ConnectErrorKinds ==
  (kind = "sharepoint" /\ last.op = "connect") =>
    /\ ~ConfigComplete(config) => last.exc = "ConfigurationError"
    /\ last.exc = "ConnectionError" => ConfigComplete(config)

\* C7: inside a with block a SnowflakeConnector that has at most one
\* connection outstanding keeps at most one outstanding after every call,
\* and has none outstanding when the block is left.
C7_NoLeakedHandle ==
  [][(kind = "snowflake" /\ scope = "in" /\ Cardinality(live) <= 1)
       => /\ Cardinality(live') <= 1
          /\ scope' = "out" => live' = {}]_vars

\* C8: a data method called with an empty handle makes exactly one connect
\* and goes on to the backend only if that connect returned; called with a
\* handle it makes no connect; the backend is reached only with a handle.
C8_ConnectOnFirstUse ==
  last.op \in DataOps =>
    /\ last.preEmpty => /\ last.connects = 1
                        /\ last.contacted => ~last.connectRaised
    /\ ~last.preEmpty => last.connects = 0 /\ ~last.connectRaised
    /\ last.contacted => Handle # None

\* C8 witness: read_csv_to_dataframe on a disconnected SharePointConnector
\* connected and then read the file.
C8_Witness ==
  /\ kind = "sharepoint"
  /\ last.op = "read_csv_to_dataframe"
  /\ last.preEmpty
  /\ last.connects = 1
  /\ last.contacted
  /\ last.exc = "none"

\* The positions of the fields whose internal name does not begin with "_".
Shown(fields) ==
  {i \in DOMAIN fields :
     fields[i].InternalName = <<>> \/ fields[i].InternalName[1] # "_"}

\* ret lists the Title of exactly the shown fields, in the order of fields.
IsShownTitles(fields, ret) ==
  \E f \in [DOMAIN ret -> DOMAIN fields] :
    /\ \A i, j \in DOMAIN ret : i < j => f[i] < f[j]
    /\ {f[i] : i \in DOMAIN ret} = Shown(fields)
    /\ \A i \in DOMAIN ret : ret[i] = fields[f[i]].Title

\* C9: when get_list_fields returns, it returns the Title of exactly the
\* fields whose InternalName does not start with "_", in the list's order;
\* for no field, or only such fields, it returns the empty list.
C9_ListFieldsFilter ==
  (last.op = "get_list_fields" /\ last.exc = "none") =>
    /\ IsShownTitles(last.arg, last.ret)
    /\ Shown(last.arg) = {} => last.ret = <<>>

\* C9 witness: of two fields the first is internal, the second has an
\* underscore after its first character and is listed.
C9_Witness ==
  /\ last.op = "get_list_fields"
  /\ last.exc = "none"
  /\ Len(last.arg) = 2
  /\ last.arg[1].InternalName = <<"_", "a">>
  /\ last.arg[2].InternalName = <<"a", "_">>
  /\ last.ret = <<last.arg[2].Title>>

\* C10: a connect that raises on a session whose handle was empty leaves the
\* handle empty, in connect, in __enter__ and in a data method's guard.
C10_FailedConnectLeavesDisconnected ==
  (last.connects = 1 /\ last.connectRaised /\ last.preEmpty) =>
    Handle = None
====
